---------------------------- MODULE Spec2Model ----------------------------
(***************************************************************************)
(* Model of src/extract.py (the Corporate Tax Analyzer): the numeric       *)
(* normalizer clean_numeric_value, the tax schedule                        *)
(* calculate_netherlands_tax, the extraction-and-reconciliation function   *)
(* extract_financial_data_with_ai and the part of main() that calls it.    *)
(*                                                                         *)
(* Text is a sequence of pieces: each piece is one character, except       *)
(* NinesRun, which stands for an unbroken run of FloatOverflowDigits nines *)
(* (a number too long for a double).  A Python float is either a finite    *)
(* decimal m / 10^e (kept normalised, so equal values are equal records)   *)
(* or one of inf, -inf, nan.                                               *)
(***************************************************************************)
EXTENDS Integers, Sequences, FiniteSets, TLC

VARIABLES
    pc,             \* position of the process / of the function call under study
    arg,            \* argument of the pure function under study
    ret,            \* its return value
    api_key,        \* os.getenv("OPENAI_API_KEY") at process start: "present" | "absent"
    response,       \* what the text-generation call produced for the last upload
    financial_data, \* the record extract_financial_data_with_ai returned
    st_errors,      \* the st.error messages of the last run
    table,          \* rows "Company Name" and "Country" of create_results_table
    loss_notice     \* whether main() showed the negative-income st.info

vars == <<pc, arg, ret, api_key, response, financial_data, st_errors, table, loss_notice>>

---------------------------------------------------------------------------
(* Characters and text *)

DigitChars == <<"0", "1", "2", "3", "4", "5", "6", "7", "8", "9">>

\* a decimal integer of this many significant digits is beyond the largest
\* double, so float() of it is inf
FloatOverflowDigits == 310

\* the piece that stands for FloatOverflowDigits nines in a row
NinesRun == "<310 nines>"

\* the number of characters of a piece
PieceLen(c) == IF c = NinesRun THEN FloatOverflowDigits ELSE 1

\* \d
IsDigit(c) == c = NinesRun \/ \E d \in 1..10 : DigitChars[d] = c

DigitVal(c) == (CHOOSE d \in 1..10 : DigitChars[d] = c) - 1

\* \s of the regular expression on line 25
IsSpace(c) == c \in {" ", "\t", "\n"}

\* s[i..j], empty when j < i
SubStr(s, i, j) == IF j < i THEN <<>> ELSE [k \in 1..(j - i + 1) |-> s[i + k - 1]]

StartsWith(s, p) == Len(s) >= Len(p) /\ SubStr(s, 1, Len(p)) = p

EndsWith(s, p) == Len(s) >= Len(p) /\ SubStr(s, Len(s) - Len(p) + 1, Len(s)) = p

RECURSIVE NatToStr(_)
NatToStr(n) == IF n < 10 THEN <<DigitChars[n + 1]>>
               ELSE Append(NatToStr(n \div 10), DigitChars[(n % 10) + 1])

\* str(n) of a Python int
IntToStr(n) == IF n < 0 THEN <<"-">> \o NatToStr(-n) ELSE NatToStr(n)

RECURSIVE Pow10(_)
Pow10(e) == IF e = 0 THEN 1 ELSE 10 * Pow10(e - 1)

RECURSIVE DigitsToNat(_)
DigitsToNat(ds) == IF ds = <<>> THEN 0
                   ELSE 10 * DigitsToNat(SubStr(ds, 1, Len(ds) - 1)) + DigitVal(ds[Len(ds)])

Min(S) == CHOOSE x \in S : \A y \in S : x <= y

StripLeadingZeros(ds) ==
    LET nz == {i \in 1..Len(ds) : ds[i] # "0"}
    IN  IF nz = {} THEN <<>> ELSE SubStr(ds, Min(nz), Len(ds))

---------------------------------------------------------------------------
(* Python floats *)

Abs(n) == IF n < 0 THEN -n ELSE n

RECURSIVE Norm(_, _)
Norm(m, e) == IF e > 0 /\ m % 10 = 0 THEN Norm(m \div 10, e - 1)
              ELSE [k |-> "fin", m |-> m, e |-> e]

Fin(n)  == [k |-> "fin", m |-> n, e |-> 0]
PosInf  == [k |-> "inf", m |-> 1, e |-> 0]
NegInf  == [k |-> "inf", m |-> -1, e |-> 0]
NaN     == [k |-> "nan", m |-> 0, e |-> 0]
Zero    == Fin(0)

IsFinite(x) == x.k = "fin"

Sign(n) == IF n > 0 THEN 1 ELSE IF n < 0 THEN -1 ELSE 0

Max(a, b) == IF a >= b THEN a ELSE b

\* m of x rescaled to exponent e >= x.e
Scaled(x, e) == x.m * Pow10(e - x.e)

FNeg(x) == [x EXCEPT !.m = -x.m]

FAdd(x, y) ==
    IF x.k = "nan" \/ y.k = "nan" THEN NaN
    ELSE IF x.k = "inf" /\ y.k = "inf" THEN (IF x.m = y.m THEN x ELSE NaN)
    ELSE IF x.k = "inf" THEN x
    ELSE IF y.k = "inf" THEN y
    ELSE LET e == Max(x.e, y.e) IN Norm(Scaled(x, e) + Scaled(y, e), e)

FSub(x, y) == FAdd(x, FNeg(y))

FMul(x, y) ==
    IF x.k = "nan" \/ y.k = "nan" THEN NaN
    ELSE IF x.k = "inf" \/ y.k = "inf"
         THEN (IF x.m = 0 \/ y.m = 0 THEN NaN
               ELSE IF Sign(x.m) = Sign(y.m) THEN PosInf ELSE NegInf)
    ELSE Norm(x.m * y.m, x.e + y.e)

\* x <= y; every comparison with nan is False
FLe(x, y) ==
    IF x.k = "nan" \/ y.k = "nan" THEN FALSE
    ELSE IF x.k = "inf" THEN (x.m < 0 \/ x = y)
    ELSE IF y.k = "inf" THEN y.m > 0
    ELSE LET e == Max(x.e, y.e) IN Scaled(x, e) <= Scaled(y, e)

FLt(x, y) == FLe(x, y) /\ x # y

\* int(round(x)) of a finite float: round half to even
RoundHalfEven(x) ==
    LET d  == Pow10(x.e)
        a  == Abs(x.m)
        q  == a \div d
        r2 == 2 * (a % d)
        n  == IF r2 > d \/ (r2 = d /\ q % 2 = 1) THEN q + 1 ELSE q
    IN  IF x.m < 0 THEN -n ELSE n

RECURSIVE CharCount(_)
CharCount(s) == IF s = <<>> THEN 0 ELSE PieceLen(s[1]) + CharCount(Tail(s))

\* float(s) for s matching -?\d+\.?\d*
PyFloat(s) ==
    LET neg  == s[1] = "-"
        body == IF neg THEN Tail(s) ELSE s
        dots == {i \in 1..Len(body) : body[i] = "."}
        dot  == IF dots = {} THEN Len(body) + 1 ELSE CHOOSE i \in dots : TRUE
        ip   == SubStr(body, 1, dot - 1)
        fp   == SubStr(body, dot + 1, Len(body))
    IN  IF CharCount(StripLeadingZeros(ip)) >= FloatOverflowDigits
        THEN (IF neg THEN NegInf ELSE PosInf)
        ELSE LET m == DigitsToNat(ip \o fp)
             IN  Norm(IF neg THEN -m ELSE m, Len(fp))

\* str(x) of a float
FloatToStr(x) ==
    IF x.k = "nan" THEN <<"n", "a", "n">>
    ELSE IF x.k = "inf" THEN (IF x.m < 0 THEN <<"-">> ELSE <<>>) \o <<"i", "n", "f">>
    ELSE LET d  == Pow10(x.e)
             a  == Abs(x.m)
             fs == NatToStr(a % d)
             pad == [i \in 1..(x.e - Len(fs)) |-> "0"]
         IN  (IF x.m < 0 THEN <<"-">> ELSE <<>>) \o NatToStr(a \div d) \o <<".">>
             \o (IF x.e = 0 THEN <<"0">> ELSE pad \o fs)

---------------------------------------------------------------------------
(* Python values that reach clean_numeric_value: a JSON string, number,    *)
(* boolean, null or list, or None                                          *)

PyS(s)     == [t |-> "str",   s |-> s,    f |-> Zero]
PyNone     == [t |-> "none",  s |-> <<>>, f |-> Zero]
PyInt(n)   == [t |-> "int",   s |-> <<>>, f |-> Fin(n)]
PyFlt(x)   == [t |-> "float", s |-> <<>>, f |-> x]
PyBool(b)  == [t |-> "bool",  s |-> <<>>, f |-> IF b THEN Fin(1) ELSE Zero]
\* a list, carried as its str(): "[]" is the empty list
PyList(s)  == [t |-> "list",  s |-> s,    f |-> Zero]

\* bool(value)
Truthy(v) ==
    CASE v.t = "str"  -> v.s # <<>>
      [] v.t = "none" -> FALSE
      [] v.t = "list" -> v.s # <<"[", "]">>
      [] OTHER        -> v.f # Zero

\* str(value)
PyStr(v) ==
    CASE v.t = "str"   -> v.s
      [] v.t = "none"  -> <<"N", "o", "n", "e">>
      [] v.t = "list"  -> v.s
      [] v.t = "int"   -> IntToStr(v.f.m)
      [] v.t = "bool"  -> IF v.f # Zero THEN <<"T", "r", "u", "e">>
                          ELSE <<"F", "a", "l", "s", "e">>
      [] OTHER         -> FloatToStr(v.f)

---------------------------------------------------------------------------
(* clean_numeric_value, lines 19-35 *)

\* re.sub(r'[€$,\s]', '', s), line 25
ReSubStrip(s) == SelectSeq(s, LAMBDA c : ~(c \in {"€", "$", ","} \/ IsSpace(c)))

\* variant: the parentheses are dropped without the minus sign
ParenNegative_NoSign(cleaned) ==
    IF StartsWith(cleaned, <<"(">>) /\ EndsWith(cleaned, <<")">>)
    THEN SubStr(cleaned, 2, Len(cleaned) - 1)
    ELSE cleaned

\* lines 28-29
ParenNegative(cleaned) ==
    IF StartsWith(cleaned, <<"(">>) /\ EndsWith(cleaned, <<")">>)
    THEN <<"-">> \o SubStr(cleaned, 2, Len(cleaned) - 1)
    ELSE cleaned

\* last index of the run of digits of s starting at i (i - 1 when s[i] is no digit)
DigitRunEnd(s, i) ==
    LET stop == {j \in i..Len(s) : ~IsDigit(s[j])}
    IN  IF stop = {} THEN Len(s) ELSE Min(stop) - 1

\* variant: the pattern without its fraction, -?\d+
MatchEndAt_IntegerOnly(s, i) ==
    LET j  == IF s[i] = "-" /\ i < Len(s) /\ IsDigit(s[i + 1]) THEN i + 1 ELSE i
        k  == DigitRunEnd(s, j)
    IN  IF k < j THEN 0 ELSE k

\* end of the match of -?\d+\.?\d* anchored at i, 0 when it does not match there
MatchEndAt(s, i) ==
    LET j  == IF s[i] = "-" /\ i < Len(s) /\ IsDigit(s[i + 1]) THEN i + 1 ELSE i
        k  == DigitRunEnd(s, j)
    IN  IF k < j THEN 0
        ELSE IF k < Len(s) /\ s[k + 1] = "." THEN DigitRunEnd(s, k + 2) ELSE k

\* re.search(r'-?\d+\.?\d*', s), line 32: the leftmost match, <<>> for None
RECURSIVE SearchFrom(_, _)
SearchFrom(s, i) ==
    IF i > Len(s) THEN <<>>
    ELSE IF MatchEndAt(s, i) > 0 THEN SubStr(s, i, MatchEndAt(s, i))
    ELSE SearchFrom(s, i + 1)

ReSearchNumeric(s) == SearchFrom(s, 1)

\* lines 33-35
FloatOfMatch(numeric_match) ==
    IF numeric_match # <<>> THEN PyFloat(numeric_match) ELSE Zero

clean_numeric_value(value) ==
    IF ~Truthy(value) \/ value = PyS(<<>>) \/ value = PyS(<<"0">>) THEN Zero
    ELSE FloatOfMatch(ReSearchNumeric(ParenNegative(ReSubStrip(PyStr(value)))))

---------------------------------------------------------------------------
(* calculate_netherlands_tax, lines 37-45 *)

BracketLimit == 200000

Rate19  == [k |-> "fin", m |-> 19,  e |-> 2]
Rate258 == [k |-> "fin", m |-> 258, e |-> 3]

\* variant: the whole income of the upper bracket taxed at the upper rate
calculate_netherlands_tax_FlatUpperRate(taxable_income) ==
    IF FLe(taxable_income, Zero) THEN Zero
    ELSE IF FLe(taxable_income, Fin(BracketLimit)) THEN FMul(taxable_income, Rate19)
    ELSE FMul(taxable_income, Rate258)

\* variant: no guard for a loss
calculate_netherlands_tax_NoLossGuard(taxable_income) ==
    IF FLe(taxable_income, Fin(BracketLimit)) THEN FMul(taxable_income, Rate19)
    ELSE FAdd(FMul(Fin(BracketLimit), Rate19),
              FMul(FSub(taxable_income, Fin(BracketLimit)), Rate258))

calculate_netherlands_tax(taxable_income) ==
    IF FLe(taxable_income, Zero) THEN Zero
    ELSE IF FLe(taxable_income, Fin(BracketLimit)) THEN FMul(taxable_income, Rate19)
    ELSE FAdd(FMul(Fin(BracketLimit), Rate19),
              FMul(FSub(taxable_income, Fin(BracketLimit)), Rate258))

---------------------------------------------------------------------------
(* The response of the text-generation call, lines 89-99.  The message     *)
(* content is a sequence of pieces of text; Obj stands for the text of the *)
(* JSON object whose members are response.obj, Arr for the text of a JSON  *)
(* value that is no object.                                                *)

\* three backquotes and json, with the newline after them
FenceJson == "<fence json>"
\* three backquotes
Fence     == "<fence>"
NL        == "\n"
Prose     == "Here is the extracted data:"
Obj       == "<json object>"
Arr       == "<json array>"

Absent == [t |-> "absent", s |-> <<>>, f |-> Zero]

Keys == {"company_name", "country", "total_revenue", "total_expenses",
         "depreciation", "deductions", "net_taxable_income", "final_tax_owed"}

BaseKeys == {"total_revenue", "total_expenses", "depreciation", "deductions"}

NumericKeys == BaseKeys \cup {"net_taxable_income", "final_tax_owed"}

\* result.strip(), lines 99 and 103
RECURSIVE LStrip(_)
LStrip(c) == IF c # <<>> /\ c[1] = NL THEN LStrip(Tail(c)) ELSE c

RECURSIVE RStrip(_)
RStrip(c) == IF c # <<>> /\ c[Len(c)] = NL THEN RStrip(SubStr(c, 1, Len(c) - 1)) ELSE c

Strip(c) == RStrip(LStrip(c))

\* the re.sub of line 103: every fence (three backquotes, or three backquotes
\* and json) goes, with the newline that follows it
RECURSIVE ReSubFences(_)
ReSubFences(c) ==
    IF c = <<>> THEN <<>>
    ELSE IF c[1] = FenceJson THEN ReSubFences(Tail(c))
    ELSE IF c[1] = Fence
         THEN (IF Len(c) >= 2 /\ c[2] = NL THEN ReSubFences(Tail(Tail(c)))
               ELSE ReSubFences(Tail(c)))
    ELSE <<c[1]>> \o ReSubFences(Tail(c))

\* lines 99-103
CleanJsonResponse(content) ==
    LET result == Strip(content)
    IN  IF result # <<>> /\ result[1] \in {Fence, FenceJson}
        THEN Strip(ReSubFences(result))
        ELSE result

\* json.loads(result), line 106: "object", "other" (a JSON value that is no
\* object) or "error" (JSONDecodeError); white space around the value is allowed
JsonLoads(result) ==
    LET body == SelectSeq(result, LAMBDA p : p # NL)
    IN  IF body = <<Obj>> THEN "object"
        ELSE IF body = <<Arr>> THEN "other"
        ELSE "error"

---------------------------------------------------------------------------
(* extract_financial_data_with_ai, lines 47-139 *)

\* parsed_data.get(key, "0")
Get(parsed_data, key, default) ==
    IF parsed_data[key] = Absent THEN default ELSE parsed_data[key]

\* variant: str(int(x)), which truncates
RoundStr_Truncating(x) ==
    PyS(IntToStr((IF x.m < 0 THEN -1 ELSE 1) * (Abs(x.m) \div Pow10(x.e))))

\* str(int(round(x))), lines 119-124
RoundStr(x) == PyS(IntToStr(RoundHalfEven(x)))

\* the exception int(round(x)) raises: OverflowError for an infinity,
\* ValueError for nan
RoundError(x) == IF x.k = "inf" THEN "OverflowError"
                 ELSE IF x.k = "nan" THEN "ValueError" ELSE "none"

\* lines 130-139
FallbackRecord ==
    [key \in Keys |-> IF key \in NumericKeys THEN PyS(<<"0">>) ELSE PyS(<<>>)]

\* variant: the model's own net_taxable_income and final_tax_owed are kept
\* when it supplied them
UpdateAndReturn_TrustingModel(parsed_data, revenue, expenses, depreciation, deductions, net_taxable, final_tax) ==
    IF \E x \in {revenue, expenses, depreciation, deductions, net_taxable, final_tax} :
           ~IsFinite(x)
    THEN [exc |-> "OverflowError", record |-> FallbackRecord]
    ELSE [exc |-> "none",
          record |-> [key \in Keys |->
              CASE key = "total_revenue"      -> RoundStr(revenue)
                [] key = "total_expenses"     -> RoundStr(expenses)
                [] key = "depreciation"       -> RoundStr(depreciation)
                [] key = "deductions"         -> RoundStr(deductions)
                [] key = "net_taxable_income" ->
                       Get(parsed_data, key, RoundStr(net_taxable))
                [] key = "final_tax_owed"     ->
                       Get(parsed_data, key, RoundStr(final_tax))
                [] OTHER                      -> parsed_data[key]]]

\* variant: a name the model left out is filled in with the empty string
UpdateAndReturn_DefaultingNames(parsed_data, revenue, expenses, depreciation, deductions, net_taxable, final_tax) ==
    IF \E x \in {revenue, expenses, depreciation, deductions, net_taxable, final_tax} :
           ~IsFinite(x)
    THEN [exc |-> "OverflowError", record |-> FallbackRecord]
    ELSE [exc |-> "none",
          record |-> [key \in Keys |->
              CASE key = "total_revenue"      -> RoundStr(revenue)
                [] key = "total_expenses"     -> RoundStr(expenses)
                [] key = "depreciation"       -> RoundStr(depreciation)
                [] key = "deductions"         -> RoundStr(deductions)
                [] key = "net_taxable_income" -> RoundStr(net_taxable)
                [] key = "final_tax_owed"     -> RoundStr(final_tax)
                [] OTHER                      -> Get(parsed_data, key, PyS(<<>>))]]

\* lines 119-126: the six values go into parsed_data, rounded and as text;
\* int(round(x)) raises for the first value that is no finite number
UpdateAndReturn(parsed_data, revenue, expenses, depreciation, deductions, net_taxable, final_tax) ==
    IF \E x \in {revenue, expenses, depreciation, deductions, net_taxable, final_tax} :
           ~IsFinite(x)
    THEN [exc |-> RoundError(
                    IF ~IsFinite(revenue) THEN revenue
                    ELSE IF ~IsFinite(expenses) THEN expenses
                    ELSE IF ~IsFinite(depreciation) THEN depreciation
                    ELSE IF ~IsFinite(deductions) THEN deductions
                    ELSE IF ~IsFinite(net_taxable) THEN net_taxable
                    ELSE final_tax),
          record |-> FallbackRecord]
    ELSE [exc |-> "none",
          record |-> [key \in Keys |->
              CASE key = "total_revenue"      -> RoundStr(revenue)
                [] key = "total_expenses"     -> RoundStr(expenses)
                [] key = "depreciation"       -> RoundStr(depreciation)
                [] key = "deductions"         -> RoundStr(deductions)
                [] key = "net_taxable_income" -> RoundStr(net_taxable)
                [] key = "final_tax_owed"     -> RoundStr(final_tax)
                [] OTHER                      -> parsed_data[key]]]

\* line 116
WithFinalTax(parsed_data, revenue, expenses, depreciation, deductions, net_taxable) ==
    UpdateAndReturn(parsed_data, revenue, expenses, depreciation, deductions,
                    net_taxable, calculate_netherlands_tax(net_taxable))

\* line 115
WithNetTaxable(parsed_data, revenue, expenses, depreciation, deductions) ==
    WithFinalTax(parsed_data, revenue, expenses, depreciation, deductions,
                 FSub(FSub(FSub(revenue, expenses), depreciation), deductions))

\* lines 108-126: the reconciled record, or the exception raised on the way
Reconcile(parsed_data) ==
    WithNetTaxable(parsed_data,
        clean_numeric_value(Get(parsed_data, "total_revenue", PyS(<<"0">>))),
        clean_numeric_value(Get(parsed_data, "total_expenses", PyS(<<"0">>))),
        clean_numeric_value(Get(parsed_data, "depreciation", PyS(<<"0">>))),
        clean_numeric_value(Get(parsed_data, "deductions", PyS(<<"0">>))))

\* lines 106-126: json.loads and what follows it
AfterLoads(loaded, parsed_data) ==
    IF loaded = "error" THEN [exc |-> "JSONDecodeError", record |-> FallbackRecord]
    ELSE IF loaded = "other" THEN [exc |-> "AttributeError", record |-> FallbackRecord]
    ELSE Reconcile(parsed_data)

\* the try block, lines 88-126
TryBlock(r) ==
    IF r.call = "raises" THEN [exc |-> "APIError", record |-> FallbackRecord]
    ELSE AfterLoads(JsonLoads(CleanJsonResponse(r.content)), r.obj)

\* the except clause, lines 128-139: every Exception is reported and replaced
\* by the fallback record
ExceptClause(t) ==
    IF t.exc # "none"
    THEN [record |-> FallbackRecord, errors |-> <<t.exc>>, raised |-> "none"]
    ELSE [record |-> t.record, errors |-> <<>>, raised |-> "none"]

extract_financial_data_with_ai(r) == ExceptClause(TryBlock(r))

---------------------------------------------------------------------------
(* main(), lines 170-266, as far as the record is concerned *)

\* lines 155-157: the first two rows of create_results_table
create_results_table(fd) ==
    [company_name |-> Get(fd, "company_name", PyS(<<"N", "o", "t", " ", "F", "o", "u", "n", "d">>)),
     country      |-> Get(fd, "country", PyS(<<"N", "o", "t", " ", "F", "o", "u", "n", "d">>))]

\* lines 236-237: float(financial_data.get("net_taxable_income", "0")) < 0
NetIsNegative(fd) == FLt(PyFloat(Get(fd, "net_taxable_income", PyS(<<"0">>)).s), Zero)

---------------------------------------------------------------------------
(* The responses the text-generation service is taken to give *)

\* a number too long for a double
Huge == <<NinesRun>>

\* what a base member of the model's object may hold
BaseValues ==
    { Absent,
      PyS(<<"0", ".", "5">>), PyS(<<"1", ".", "5">>), PyS(<<"1", "0">>),
      PyS(<<"(", "5", "0", "0", ")">>),
      PyS(<<"€", "5", "0", "0", ",", "0", "0", "0">>),
      PyInt(80000),
      PyS(Huge) }

\* the two names of the model's object
NamePairs ==
    { <<PyS(<<"A", "c", "m", "e", " ", "B", ".", "V", ".">>), Absent>>,
      <<Absent, PyS(<<"N", "e", "t", "h", "e", "r", "l", "a", "n", "d", "s">>)>>,
      <<PyS(<<>>), PyS(<<"N", "L">>)>> }

\* the model's own net_taxable_income and final_tax_owed
DerivedPairs ==
    { <<Absent, Absent>>,
      <<PyS(<<"1", "5", "0", "0", "0", "0">>), PyS(<<"1", "0">>)>> }

ObjectsOver(base, names, derived) ==
    { [company_name |-> n[1], country |-> n[2],
       total_revenue |-> b[1], total_expenses |-> b[2],
       depreciation |-> b[3], deductions |-> b[4],
       net_taxable_income |-> d[1], final_tax_owed |-> d[2]] :
      n \in names, b \in base \X base \X base \X base, d \in derived }

EmptyObject == [key \in Keys |-> Absent]

\* contents given with every object
ObjectContents ==
    { <<Obj>>,
      <<FenceJson, Obj, NL, Fence>> }

\* contents given with the empty object only
OtherContents ==
    { <<>>,
      <<Prose>>,
      <<Arr>>,
      <<NL, Obj, NL>>,
      <<Fence, NL, Obj, NL, Fence, NL>>,
      <<Fence, Obj, Fence>>,
      <<Prose, NL, FenceJson, Obj, NL, Fence>>,
      <<FenceJson, Obj, NL, Fence, NL, Prose>>,
      <<FenceJson, Arr, NL, Fence>>,
      <<Obj, NL, Obj>> }

NoResponse == [call |-> "none", content |-> <<>>, obj |-> EmptyObject]

ResponsesOver(objects) ==
    { [call |-> "raises", content |-> <<>>, obj |-> EmptyObject] }
    \cup { [call |-> "ok", content |-> c, obj |-> EmptyObject] : c \in OtherContents }
    \cup { [call |-> "ok", content |-> c, obj |-> o] : c \in ObjectContents, o \in objects }

---------------------------------------------------------------------------
(* The program: start of the process (lines 13-16), then one run of main() *)
(* per uploaded document                                                   *)

NoRecord == [key \in Keys |-> Absent]
NoTable  == [company_name |-> Absent, country |-> Absent]

Init ==
    /\ pc = "boot"
    /\ api_key \in {"present", "absent"}
    /\ response = NoResponse
    /\ financial_data = NoRecord
    /\ st_errors = <<>>
    /\ table = NoTable
    /\ loss_notice = FALSE
    /\ arg = PyNone
    /\ ret = Zero

\* lines 14-16 with the credential set
StartupWithKey ==
    /\ pc = "boot"
    /\ api_key = "present"
    /\ pc' = "ready"
    /\ UNCHANGED <<arg, ret, api_key, response, financial_data, st_errors, table, loss_notice>>

\* lines 14-16 without it: OpenAI(api_key=None) is library code, called at
\* module level outside any try.  The client of openai 1.x then reads
\* OPENAI_API_KEY itself and raises OpenAIError when it is unset; a client that
\* accepted None would fail at the request instead.
StartupNoKey ==
    /\ pc = "boot"
    /\ api_key = "absent"
    /\ pc' \in {"crashed", "ready"}
    /\ UNCHANGED <<arg, ret, api_key, response, financial_data, st_errors, table, loss_notice>>

\* lines 188-214 and 86-97: a document is uploaded, main() calls
\* extract_financial_data_with_ai, and the request to the text-generation
\* service returns or raises; without a credential it can only raise
Request ==
    /\ pc = "ready"
    /\ \E r \in ResponsesOver(ObjectsOver(BaseValues, NamePairs, DerivedPairs)) :
         /\ api_key = "absent" => r.call = "raises"
         /\ response' = r
    /\ pc' = "called"
    /\ UNCHANGED <<arg, ret, api_key, financial_data, st_errors, table, loss_notice>>

\* lines 216-245: the results table and the loss notice; an exception out of
\* extract_financial_data_with_ai would end the run before them
Show(out) ==
    IF out.raised # "none"
    THEN /\ pc' = "crashed"
         /\ UNCHANGED <<financial_data, st_errors, table, loss_notice>>
    ELSE /\ pc' = "shown"
         /\ financial_data' = out.record
         /\ st_errors' = out.errors
         /\ table' = create_results_table(out.record)
         /\ loss_notice' = NetIsNegative(out.record)

\* lines 99-139 and 216-245: the rest of extract_financial_data_with_ai, then
\* the display
Process ==
    /\ pc = "called"
    /\ Show(extract_financial_data_with_ai(response))
    /\ UNCHANGED <<arg, ret, api_key, response>>

\* the next run of the script: financial_data and what main() displayed are
\* local to a run
Rerun ==
    /\ pc = "shown"
    /\ pc' = "ready"
    /\ response' = NoResponse
    /\ financial_data' = NoRecord
    /\ st_errors' = <<>>
    /\ table' = NoTable
    /\ loss_notice' = FALSE
    /\ UNCHANGED <<arg, ret, api_key>>

Next == StartupWithKey \/ StartupNoKey \/ Request \/ Process \/ Rerun

Spec == Init /\ [][Next]_vars

---------------------------------------------------------------------------
(* clean_numeric_value on its own: every text over Alphabet up to MaxLen   *)
(* characters, the examples of its documentation, and values that are no   *)
(* text                                                                    *)

MaxLen == 4

Alphabet == {"€", "$", ",", " ", "%", "(", ")", "-", ".", "0", "5", "a"}

TextsUpTo(n) == UNION {[1..i -> Alphabet] : i \in 0..n}

CleanInputsUpTo(n) ==
    { PyS(s) : s \in TextsUpTo(n) }
    \cup { PyS(<<"€", "1", ",", "2", "3", "4">>), PyS(<<"(", "5", "0", "0", ")">>), PyS(<<"€", "(", "1", ",", "2", "3", "4", ")">>), PyS(<<"a", "b", "c">>), PyS(Huge),
           PyS(<<"-">> \o Huge), PyS(<<"(", "0">> \o Huge \o <<")">>),
           PyS(<<"€", "5", "0", "0", ",", "0", "0", "0">>) }
    \cup { PyNone, PyInt(0), PyInt(5), PyInt(-5), PyFlt(Zero), PyFlt(Norm(15, 1)),
           PyFlt(Norm(-5, 1)), PyFlt(Fin(5)), PyFlt(PosInf), PyFlt(NaN),
           PyBool(TRUE), PyBool(FALSE), PyList(<<"[", "]">>), PyList(<<"[", "5", "]">>) }

InitClean ==
    /\ pc = "call"
    /\ arg \in CleanInputsUpTo(MaxLen)
    /\ ret = Zero
    /\ api_key = "present"
    /\ response = NoResponse
    /\ financial_data = NoRecord
    /\ st_errors = <<>>
    /\ table = NoTable
    /\ loss_notice = FALSE

CallClean ==
    /\ pc = "call"
    /\ ret' = clean_numeric_value(arg)
    /\ pc' = "return"
    /\ UNCHANGED <<arg, api_key, response, financial_data, st_errors, table, loss_notice>>

SpecClean == InitClean /\ [][CallClean]_vars

---------------------------------------------------------------------------
(* calculate_netherlands_tax on its own: incomes c + d/2 around the points *)
(* of the schedule, and the floats that are no numbers                     *)

MaxDelta == 20

TaxCentres == {0, BracketLimit, 250000, 350000}

TaxInputsWithin(delta) ==
    { Norm(10 * c + 5 * d, 1) : c \in TaxCentres, d \in (-delta)..delta }
    \cup { PosInf, NegInf, NaN }

InitTax ==
    /\ pc = "call"
    /\ arg \in TaxInputsWithin(MaxDelta)
    /\ ret = Zero
    /\ api_key = "present"
    /\ response = NoResponse
    /\ financial_data = NoRecord
    /\ st_errors = <<>>
    /\ table = NoTable
    /\ loss_notice = FALSE

CallTax ==
    /\ pc = "call"
    /\ ret' = calculate_netherlands_tax(arg)
    /\ pc' = "return"
    /\ UNCHANGED <<arg, api_key, response, financial_data, st_errors, table, loss_notice>>

SpecTax == InitTax /\ [][CallTax]_vars

---------------------------------------------------------------------------
(* What the properties below read off a state *)

\* the number a field of the returned record shows, float(amount)
Amount(v) == PyFloat(v.s)

\* the call returned and its content parsed to a JSON object
ParsedObject(r) == r.call = "ok" /\ JsonLoads(CleanJsonResponse(r.content)) = "object"

\* a base member of the model's object, normalised (before any rounding)
BaseFloat(r, key) == clean_numeric_value(Get(r.obj, key, PyS(<<"0">>)))

\* revenue - expenses - depreciation - deductions, before any rounding
RecomputedNet(r) ==
    FSub(FSub(FSub(BaseFloat(r, "total_revenue"), BaseFloat(r, "total_expenses")),
              BaseFloat(r, "depreciation")),
         BaseFloat(r, "deductions"))

AllBaseFinite(r) == \A key \in BaseKeys : IsFinite(BaseFloat(r, key))

AllBaseWhole(r) == \A key \in BaseKeys : IsFinite(BaseFloat(r, key)) /\ BaseFloat(r, key).e = 0

Returned == pc = "shown"

---------------------------------------------------------------------------
(* C1.  In every returned record the numbers shown satisfy                 *)
(* net_taxable_income = total_revenue - total_expenses - depreciation -    *)
(* deductions exactly, whatever the model answered (fractional base values *)
(* included).  The code rounds the four base values and the net each on    *)
(* its own, so the identity fails for fractional base values.              *)
C1_NetIdentity ==
    Returned =>
        Amount(financial_data["net_taxable_income"]) =
            FSub(FSub(FSub(Amount(financial_data["total_revenue"]),
                           Amount(financial_data["total_expenses"])),
                      Amount(financial_data["depreciation"])),
                 Amount(financial_data["deductions"]))

---------------------------------------------------------------------------
(* C2, as claimed.  In every returned record final_tax_owed equals         *)
(* calculate_netherlands_tax of the record's own net_taxable_income,       *)
(* exactly.                                                                *)
C2_ExactTaxOfReturnedNet ==
    Returned =>
        Amount(financial_data["final_tax_owed"]) =
            calculate_netherlands_tax(Amount(financial_data["net_taxable_income"]))

(* C2, as amended.  final_tax_owed is the tax of the recomputed net         *)
(* taxable income (before rounding) rounded half-to-even to an integer; it *)
(* is the rounded tax of the returned net_taxable_income whenever the four *)
(* normalised base values are whole numbers, and on the fallback path both *)
(* are 0.                                                                  *)
C2_RoundedTaxOfRecomputedNet ==
    Returned =>
        IF st_errors # <<>>
        THEN /\ financial_data["final_tax_owed"] = PyS(<<"0">>)
             /\ financial_data["net_taxable_income"] = PyS(<<"0">>)
        ELSE /\ Amount(financial_data["final_tax_owed"]) =
                    Fin(RoundHalfEven(calculate_netherlands_tax(RecomputedNet(response))))
             /\ AllBaseWhole(response) =>
                    Amount(financial_data["final_tax_owed"]) =
                        Fin(RoundHalfEven(calculate_netherlands_tax(
                                Amount(financial_data["net_taxable_income"]))))

\* a record of the upper bracket whose tax is no whole number before rounding
C2_Witness ==
    /\ Returned
    /\ st_errors = <<>>
    /\ FLt(Fin(BracketLimit), RecomputedNet(response))
    /\ calculate_netherlands_tax(RecomputedNet(response)).e > 0
    /\ FLt(Fin(38000), Amount(financial_data["final_tax_owed"]))

---------------------------------------------------------------------------
(* C3.  If the call raises or the response, fences stripped, does not      *)
(* parse to a JSON object, the function does not raise, reports one error  *)
(* and returns the fallback record; and no error is reported when the call *)
(* and the parse both succeed.  The code reports an error and returns the  *)
(* fallback record also when a base value is too large for a double.      *)
C3_ErrorsOnlyFromCallOrParse ==
    Returned =>
        IF ParsedObject(response)
        THEN st_errors = <<>>
        ELSE Len(st_errors) = 1 /\ financial_data = FallbackRecord

---------------------------------------------------------------------------
(* C4.  The six numbers of the returned record do not depend on what the   *)
(* model supplied for net_taxable_income and final_tax_owed: any response  *)
(* that parses and differs from the one received only in those two members *)
(* yields the same six numeric fields.                                     *)
DerivedVariants == DerivedPairs \cup {<<PyInt(-1), PyNone>>, <<PyS(Huge), PyS(<<"a">>)>>}

WithDerived(r, d) ==
    [r EXCEPT !.obj = [@ EXCEPT !["net_taxable_income"] = d[1], !["final_tax_owed"] = d[2]]]

NumericFields(fd) == [key \in NumericKeys |-> fd[key]]

C4_DerivedNotTrusted ==
    (Returned /\ ParsedObject(response)) =>
        \A d \in DerivedVariants :
            NumericFields(extract_financial_data_with_ai(WithDerived(response, d)).record)
                = NumericFields(financial_data)

\* the model supplied its own derived values and they were not kept
C4_Witness ==
    /\ Returned
    /\ ParsedObject(response)
    /\ st_errors = <<>>
    /\ response.obj["net_taxable_income"] # Absent
    /\ response.obj["net_taxable_income"] # financial_data["net_taxable_income"]
    /\ response.obj["final_tax_owed"] # financial_data["final_tax_owed"]
    /\ Amount(financial_data["net_taxable_income"]) # Zero

---------------------------------------------------------------------------
(* C5.  calculate_netherlands_tax is the two-bracket schedule: 0 for       *)
(* x <= 0, x * 0.19 for 0 < x <= 200000, and 200000 * 0.19 +               *)
(* (x - 200000) * 0.258 above; tax(200000) = 38000, tax(250000) = 50900,   *)
(* and the two bracket formulas agree at 200000.  Stated in whole numbers: *)
(* the income in tenths, the tax in ten-thousandths.                       *)
Tenths(x) == x.m * Pow10(1 - x.e)

TenThousandths(x) == x.m * Pow10(4 - x.e)

C5_TwoBracketSchedule ==
    (pc = "return" /\ IsFinite(arg)) =>
        /\ IsFinite(ret) /\ ret.e <= 4
        /\ Tenths(arg) <= 0 => ret = Zero
        /\ (0 < Tenths(arg) /\ Tenths(arg) <= 2000000) =>
               TenThousandths(ret) = 190 * Tenths(arg)
        /\ Tenths(arg) > 2000000 =>
               TenThousandths(ret) = 380000000 + 258 * (Tenths(arg) - 2000000)
        /\ arg = Fin(200000) =>
               /\ ret = Fin(38000)
               /\ TenThousandths(ret) = 380000000 + 258 * (Tenths(arg) - 2000000)
        /\ arg = Fin(250000) => ret = Fin(50900)

\* an income of the upper bracket with a fraction
C5_Witness ==
    /\ pc = "return"
    /\ IsFinite(arg)
    /\ arg.e = 1
    /\ Tenths(arg) > 2500000
    /\ TenThousandths(ret) > 509000000

---------------------------------------------------------------------------
(* C6, as claimed.  An input that is wholly wrapped in parentheses once    *)
(* the currency signs, percent signs, commas and white space are stripped, *)
(* with an unsigned decimal number n inside, gives -n.                     *)
StrippedOf(s, chars) == SelectSeq(s, LAMBDA c : c \notin chars)

CodeStrips == {"€", "$", ",", " ", "\t", "\n"}

ClaimStrips == CodeStrips \cup {"%"}

\* digits, then optionally a point and digits
UnsignedDecimal(u) ==
    \E n \in 1..Len(u) :
        /\ \A i \in 1..n : IsDigit(u[i])
        /\ \/ n = Len(u)
           \/ u[n + 1] = "." /\ \A i \in (n + 2)..Len(u) : IsDigit(u[i])

Inner(s) == SubStr(s, 2, Len(s) - 1)

ParenthesizedNumber(s) ==
    Len(s) >= 3 /\ s[1] = "(" /\ s[Len(s)] = ")" /\ UnsignedDecimal(Inner(s))

C6_NegativeAfterPercentStripped ==
    (pc = "return" /\ arg.t = "str" /\ ParenthesizedNumber(StrippedOf(arg.s, ClaimStrips))) =>
        ret = FNeg(PyFloat(Inner(StrippedOf(arg.s, ClaimStrips))))

(* C6, as amended.  Percent signs are not stripped: an input that is       *)
(* wholly wrapped in parentheses once the currency signs, commas and white *)
(* space are stripped, with an unsigned decimal number n inside, gives -n. *)
C6_NegativeInParentheses ==
    (pc = "return" /\ arg.t = "str" /\ ParenthesizedNumber(StrippedOf(arg.s, CodeStrips))) =>
        ret = FNeg(PyFloat(Inner(StrippedOf(arg.s, CodeStrips))))

\* a parenthesized amount with a currency sign in front
C6_Witness ==
    /\ pc = "return"
    /\ arg.t = "str"
    /\ arg.s # <<>> /\ arg.s[1] = "€"
    /\ ParenthesizedNumber(StrippedOf(arg.s, CodeStrips))
    /\ FLt(ret, Zero)

---------------------------------------------------------------------------
(* C7.  clean_numeric_value returns a number for every input: 0.0 when the *)
(* cleaned input has no substring of the form optional minus, digits,      *)
(* optional point and digits, and otherwise the value of the first such    *)
(* substring; so "€1,234" gives 1234.0, "" gives 0.0 and "abc" gives 0.0.  *)
SignedDecimal(u) ==
    u # <<>> /\ UnsignedDecimal(IF u[1] = "-" THEN Tail(u) ELSE u)

MatchStarts(s) == {i \in 1..Len(s) : \E j \in i..Len(s) : SignedDecimal(SubStr(s, i, j))}

MatchEnds(s, i) == {j \in i..Len(s) : SignedDecimal(SubStr(s, i, j))}

Largest(S) == CHOOSE x \in S : \A y \in S : y <= x

FirstNumber(s) == SubStr(s, Min(MatchStarts(s)), Largest(MatchEnds(s, Min(MatchStarts(s)))))

CleanedInput(v) == ParenNegative(ReSubStrip(PyStr(v)))

C7_FirstNumberOrZero ==
    pc = "return" =>
        /\ ret.k \in {"fin", "inf"}
        /\ ret = IF MatchStarts(CleanedInput(arg)) = {} THEN Zero
                 ELSE PyFloat(FirstNumber(CleanedInput(arg)))
        /\ arg = PyS(<<"€", "1", ",", "2", "3", "4">>) => ret = Fin(1234)
        /\ arg = PyS(<<>>) => ret = Zero
        /\ arg = PyS(<<"a", "b", "c">>) => ret = Zero

\* a number with a fraction found after text that is no number
C7_Witness ==
    /\ pc = "return"
    /\ arg.t = "str"
    /\ MatchStarts(CleanedInput(arg)) # {}
    /\ Min(MatchStarts(CleanedInput(arg))) > 1
    /\ ret.k = "fin" /\ ret.e > 0

---------------------------------------------------------------------------
(* C8, as claimed.  On a successful parse the returned record carries      *)
(* company_name and country as the model supplied them, and the empty      *)
(* string for either one that is absent from the model's object.           *)
NameKeys == {"company_name", "country"}

---------------------------------------------------------------------------
(* C9.  final_tax_owed of every returned record is >= 0, and is 0 whenever *)
(* the recomputed net taxable income is <= 0, for every combination of     *)
(* base values, negative and parenthesized ones included.                  *)
C9_TaxNeverNegative ==
    Returned =>
        /\ FLe(Zero, Amount(financial_data["final_tax_owed"]))
        /\ (ParsedObject(response) /\ FLe(RecomputedNet(response), Zero)) =>
               financial_data["final_tax_owed"] = PyS(<<"0">>)
        /\ FLe(Amount(financial_data["net_taxable_income"]), Zero) =>
               financial_data["final_tax_owed"] = PyS(<<"0">>)

\* a loss made larger by a parenthesized revenue
C9_Witness ==
    /\ Returned
    /\ st_errors = <<>>
    /\ response.obj["total_revenue"] = PyS(<<"(", "5", "0", "0", ")">>)
    /\ FLt(Amount(financial_data["net_taxable_income"]), Fin(-80000))
    /\ financial_data["final_tax_owed"] = PyS(<<"0">>)
    /\ loss_notice

---------------------------------------------------------------------------
(* C10.  Without the API credential the program does not fail at startup:  *)
(* the absence shows only at the request, as the reported error and the    *)
(* fallback record.  The client is constructed at module level, outside    *)
(* any try, and its constructor may raise there.                           *)
C10_NoStartupCrash ==
    api_key = "absent" =>
        /\ pc # "crashed"
        /\ Returned => (st_errors = <<"APIError">> /\ financial_data = FallbackRecord)

=============================================================================
